---- MODULE Spec2Model ----
(***************************************************************************)
(* Quote/fact generator: the SQLite storage layer (database.py, class      *)
(* Database) and the service layer over it (quote_generator.py, class      *)
(* QuoteGenerator).                                                        *)
(*                                                                         *)
(* Strings are sequences of one-character strings, so that str.strip and   *)
(* slicing are computed character by character.  The Cyrillic sample data  *)
(* is transliterated character for character (lengths are kept).           *)
(* Optional[int] and Optional[Dict] values are <<>> (None) or <<v>>.       *)
(***************************************************************************)
EXTENDS Integers, Sequences, FiniteSets, TLC

VARIABLES
    topics,        \* table topics: rows [id, name] in rowid order
    quotes,        \* table quotes: rows [id, topic_id, content, created_at]
    activity_log,  \* table activity_log: rows [id, action, topic, content, timestamp]
    conn,          \* self.conn of the Database object: TRUE open, FALSE None
    now,           \* the value datetime.now() returns when read
    calls,         \* add_quote calls in progress, a record for each caller
    last           \* the last call: [op, args, exc, exc_topic, ret]

vars == <<topics, quotes, activity_log, conn, now, calls, last>>

-----------------------------------------------------------------------------
(* Bounds and input sets *)

\* Cap on the total number of rows in the three tables (8 rows are seeded).
MaxRows == 11

\* Readings of datetime.now().  The clock advances between calls or it does
\* not (two calls within one timer tick read the same value).
Times == {1, 2, 3, 4}

\* The absent topic argument (Python None); no string equals it, since the
\* elements of a string are single characters.
None == <<"None">>

Whitespace == {" "}

\* Clock readings of the five add_quote calls of the seeding, in order.
SeedTimes == {<<1, 2, 3, 3, 3>>}

\* (topic, content) given to QuoteGenerator.add_quote.
AddQuoteInputs ==
    { << <<>>,         <<" ", "x">> >>,
      << <<" ">>,      <<" ">> >>,
      << <<" ", "a">>, <<>> >>,
      << <<" ", "a">>, <<" ">> >>,
      << <<" ", "a">>, <<" ", "x">> >> }

\* Topic names given to Database.add_topic directly.
StorageTopics == { <<>>, <<"a">> }

\* (topic_id, content) given to Database.add_quote directly.
StorageTopicIds == {4}
StorageContents == { <<"x">> }

\* (action, topic, content) given to log_activity / Database.add_activity_log.
LongContent == [i \in 1..52 |-> IF i = 51 THEN "y" ELSE "x"]
LogInputs == { <<"delete", <<"a">>, LongContent>> }

\* limit given to Database.get_activity_log directly.
StorageLimits == {0, 2}

\* Topic arguments of get_quotes_by_topic and of get_random_quote.
GetQuotesTopics == { <<>>, <<" ">>, <<"a">>, <<" ", "a">>, <<"N","a","u","k","a">> }
RandomTopics == { None, <<>>, <<"a">>, <<"N","a","u","k","a">> }

-----------------------------------------------------------------------------
(* Python built-ins *)

\* bool(x) of a string or None
TruthyStr(s) == s # None /\ s # <<>>

\* bool(x) of an Optional[int]
TruthyId(r) == r # <<>> /\ r[1] # 0

RECURSIVE lstrip(_)
lstrip(s) ==
    IF s # <<>> /\ Head(s) \in Whitespace THEN lstrip(Tail(s)) ELSE s

RECURSIVE rstrip(_)
rstrip(s) ==
    IF s # <<>> /\ s[Len(s)] \in Whitespace
    THEN rstrip(SubSeq(s, 1, Len(s) - 1))
    ELSE s

\* str.strip()
strip(s) == rstrip(lstrip(s))

\* The characters with the code points 32 .. 126, in order (the double quote,
\* the backslash and the backquote are written by name).
Ascii ==
    <<
       " ", "!", "dquote", "#", "$", "%", "&", "'", "(", ")", "*", "+", ",", "-", ".", "/",
       "0", "1", "2", "3", "4", "5", "6", "7", "8", "9", ":", ";", "<", "=", ">", "?",
       "@", "A", "B", "C", "D", "E", "F", "G", "H", "I", "J", "K", "L", "M", "N", "O",
       "P", "Q", "R", "S", "T", "U", "V", "W", "X", "Y", "Z", "[", "backslash", "]", "^", "_",
       "backquote", "a", "b", "c", "d", "e", "f", "g", "h", "i", "j", "k", "l", "m", "n", "o",
       "p", "q", "r", "s", "t", "u", "v", "w", "x", "y", "z", "{", "|", "}", "~" >>

\* ord(c): the code point of a character.  (The sample data are written here
\* in Latin letters, so their names compare as those letters do.)
CodePoints ==
    [c \in {Ascii[i] : i \in DOMAIN Ascii} |->
        31 + CHOOSE i \in DOMAIN Ascii : Ascii[i] = c]
ord(c) == CodePoints[c]

-----------------------------------------------------------------------------
(* Storage layer: class Database.  Each operator takes the tables it reads  *)
(* and returns the tables it writes together with the returned value.       *)

\* Database.get_connection: self.conn afterwards.  A connection that is None
\* is opened on the data file, so every storage call leaves it open.
get_connection(c) == IF c = FALSE THEN TRUE ELSE c

\* Mutant: close without the test "if self.conn"; None.close() raises.
db_close_unguarded(c) ==
    IF c THEN [conn |-> FALSE, exc |-> ""]
    ELSE [conn |-> c, exc |-> "AttributeError"]

\* Database.close: self.conn afterwards and the exception raised ("" for
\* none).
db_close(c) ==
    IF c THEN [conn |-> FALSE, exc |-> ""]
    ELSE [conn |-> c, exc |-> ""]

\* INTEGER PRIMARY KEY AUTOINCREMENT: one more than the largest id ever used
\* (no statement deletes rows).
NextId(table) == IF table = <<>> THEN 1 ELSE table[Len(table)].id + 1

\* Mutant: the column is declared without UNIQUE.
UniqueViolation_absent(tp, topic_name) == FALSE

\* name TEXT UNIQUE NOT NULL: the INSERT raises sqlite3.IntegrityError when a
\* row with the same name (exact, BINARY collation) exists.
UniqueViolation(tp, topic_name) ==
    \E i \in DOMAIN tp : tp[i].name = topic_name

\* SELECT id FROM topics WHERE name = ? ; fetchone
SelectTopicId(tp, topic_name) ==
    LET hits == {i \in DOMAIN tp : tp[i].name = topic_name}
    IN  IF hits = {} THEN <<>>
        ELSE <<tp[CHOOSE i \in hits : \A j \in hits : i <= j].id>>

\* Mutant: INSERT OR REPLACE, which replaces the row and assigns a new id.
db_add_topic_replace(tp, topic_name) ==
    [topics |-> Append(SelectSeq(tp, LAMBDA r : r.name # topic_name),
                       [id |-> NextId(tp), name |-> topic_name]),
     ret |-> <<NextId(tp)>>]

\* Mutant: no SELECT in the except branch, the violation yields None.
db_add_topic_no_fallback(tp, topic_name) ==
    IF UniqueViolation(tp, topic_name)
    THEN [topics |-> tp, ret |-> <<>>]
    ELSE [topics |-> Append(tp, [id |-> NextId(tp), name |-> topic_name]),
          ret |-> <<NextId(tp)>>]

\* Database.add_topic.  (topics.created_at is written here and read by no
\* statement of the program; the column is not kept.)
db_add_topic(tp, topic_name) ==
    IF UniqueViolation(tp, topic_name)
    THEN [topics |-> tp, ret |-> SelectTopicId(tp, topic_name)]
    ELSE [topics |-> Append(tp, [id |-> NextId(tp), name |-> topic_name]),
          ret |-> <<NextId(tp)>>]

\* Database.get_topic_id
db_get_topic_id(tp, topic_name) == SelectTopicId(tp, topic_name)

\* The BINARY collation of a TEXT column: the first differing character
\* decides by its code point, and a proper prefix comes first (memcmp of the
\* UTF-8 bytes, which orders as the code points do).
RECURSIVE BinaryLess(_, _)
BinaryLess(a, b) ==
    IF a = <<>> THEN b # <<>>
    ELSE IF b = <<>> THEN FALSE
    ELSE IF ord(Head(a)) # ord(Head(b)) THEN ord(Head(a)) < ord(Head(b))
    ELSE BinaryLess(Tail(a), Tail(b))

\* ORDER BY name: every arrangement of the rows in which no row comes before
\* a row of lesser name.
RECURSIVE OrderByName(_)
OrderByName(rows) ==
    IF rows = {} THEN {<<>>}
    ELSE UNION { { <<r>> \o rest : rest \in OrderByName(rows \ {r}) } :
                 r \in {x \in rows : \A y \in rows : ~BinaryLess(y.name, x.name)} }

\* Mutant: no ORDER BY, the names come in rowid order.
db_get_all_topics_unordered(tp) == { [i \in DOMAIN tp |-> tp[i].name] }

\* Database.get_all_topics: the set of lists the query can return.
db_get_all_topics(tp) ==
    { [k \in DOMAIN o |-> o[k].name] :
      o \in OrderByName({tp[i] : i \in DOMAIN tp}) }

\* Database.add_quote; at is the reading of datetime.now().  The foreign
\* key of topic_id is declared but not enforced (the connection never
\* enables PRAGMA foreign_keys), so any topic_id is stored.
db_add_quote(qt, topic_id, content, at) ==
    [quotes |-> Append(qt, [id |-> NextId(qt), topic_id |-> topic_id,
                            content |-> content, created_at |-> at]),
     ret |-> <<NextId(qt)>>]

\* FROM quotes q JOIN topics t ON q.topic_id = t.id, with the columns
\* q.id, q.content, q.created_at, t.name
JoinQuotesTopics(qt, tp) ==
    { [id |-> qt[i].id, content |-> qt[i].content,
       date |-> qt[i].created_at, topic |-> tp[j].name] :
      <<i, j>> \in {p \in (DOMAIN qt) \X (DOMAIN tp) :
                      qt[p[1]].topic_id = tp[p[2]].id} }

\* ORDER BY <date> DESC: every arrangement of the rows with non-increasing
\* date; rows with equal dates come in an order SQL leaves open.
RECURSIVE OrderByDateDesc(_)
OrderByDateDesc(rows) ==
    IF rows = {} THEN {<<>>}
    ELSE UNION { { <<r>> \o rest : rest \in OrderByDateDesc(rows \ {r}) } :
                 r \in {x \in rows : \A y \in rows : y.date <= x.date} }

\* Mutant: the WHERE clause is missing, the quotes of every topic are listed.
db_get_quotes_by_topic_unfiltered(qt, tp, topic_name) ==
    { [k \in DOMAIN o |-> [id |-> o[k].id, content |-> o[k].content,
                               date |-> o[k].date]] :
      o \in OrderByDateDesc(JoinQuotesTopics(qt, tp)) }

\* Database.get_quotes_by_topic: the set of lists the query can return.
db_get_quotes_by_topic(qt, tp, topic_name) ==
    LET rows == {r \in JoinQuotesTopics(qt, tp) : r.topic = topic_name}
    IN  { [k \in DOMAIN o |-> [id |-> o[k].id, content |-> o[k].content,
                               date |-> o[k].date]] :
          o \in OrderByDateDesc(rows) }

\* Database.get_all_quotes: the set of lists the query can return.
db_get_all_quotes(qt, tp) == OrderByDateDesc(JoinQuotesTopics(qt, tp))

\* Mutant: LIMIT 1 without ORDER BY RANDOM(), the row with the least id.
db_get_random_quote_first(qt, tp, topic_name) ==
    LET rows == IF TruthyStr(topic_name)
                THEN {r \in JoinQuotesTopics(qt, tp) : r.topic = topic_name}
                ELSE JoinQuotesTopics(qt, tp)
    IN  IF rows = {} THEN {<<>>}
        ELSE {<<CHOOSE r \in rows : \A x \in rows : r.id <= x.id>>}

\* Mutant: a topic without rows falls back to the quotes of all topics.
db_get_random_quote_fallback(qt, tp, topic_name) ==
    LET all  == JoinQuotesTopics(qt, tp)
        own  == {r \in all : r.topic = topic_name}
        rows == IF TruthyStr(topic_name) /\ own # {} THEN own ELSE all
    IN  IF rows = {} THEN {<<>>} ELSE {<<r>> : r \in rows}

\* Database.get_random_quote: the set of values ORDER BY RANDOM() LIMIT 1
\* can return; <<>> is None.
db_get_random_quote(qt, tp, topic_name) ==
    LET rows == IF TruthyStr(topic_name)
                THEN {r \in JoinQuotesTopics(qt, tp) : r.topic = topic_name}
                ELSE JoinQuotesTopics(qt, tp)
    IN  IF rows = {} THEN {<<>>} ELSE {<<r>> : r \in rows}

\* content[:50]
TruncLen == 50

\* Mutant: the content is stored whole.
Truncate_whole(content) == content

Truncate(content) ==
    SubSeq(content, 1, IF Len(content) < TruncLen THEN Len(content) ELSE TruncLen)

\* Mutant: the log is capped, the oldest entry is deleted when more than two
\* are stored.
db_add_activity_log_capped(lg, action, topic, content, at) ==
    LET full == Append(lg, [id |-> NextId(lg), action |-> action, topic |-> topic,
                            content |-> Truncate(content), timestamp |-> at])
    IN  IF Len(full) > 2 THEN Tail(full) ELSE full

\* Database.add_activity_log
db_add_activity_log(lg, action, topic, content, at) ==
    Append(lg, [id |-> NextId(lg), action |-> action, topic |-> topic,
                content |-> Truncate(content), timestamp |-> at])

\* ORDER BY timestamp DESC: every arrangement of the rows with
\* non-increasing timestamp; rows with equal timestamps come in an order SQL
\* leaves open.
RECURSIVE OrderByTimestampDesc(_)
OrderByTimestampDesc(rows) ==
    IF rows = {} THEN {<<>>}
    ELSE UNION { { <<r>> \o rest : rest \in OrderByTimestampDesc(rows \ {r}) } :
                 r \in {x \in rows : \A y \in rows : y.timestamp <= x.timestamp} }

\* ORDER BY timestamp (ascending), for the mutant below.
RECURSIVE OrderByTimestampAsc(_)
OrderByTimestampAsc(rows) ==
    IF rows = {} THEN {<<>>}
    ELSE UNION { { <<r>> \o rest : rest \in OrderByTimestampAsc(rows \ {r}) } :
                 r \in {x \in rows : \A y \in rows : x.timestamp <= y.timestamp} }

\* LIMIT n of an ordered result; a negative n is no limit in SQLite.
Limit(o, n) == IF n < 0 \/ n > Len(o) THEN o ELSE SubSeq(o, 1, n)

\* the dict appended to logs for a row
LogDict(row) ==
    [action |-> row.action, topic |-> row.topic,
     content |-> row.content, timestamp |-> row.timestamp]

\* Mutant: ORDER BY timestamp without DESC.
db_get_activity_log_asc(lg, limit) ==
    { [k \in DOMAIN Limit(o, limit) |-> LogDict(o[k])] :
      o \in OrderByTimestampAsc({lg[i] : i \in DOMAIN lg}) }

\* Database.get_activity_log: the set of lists the query can return.
db_get_activity_log(lg, limit) ==
    { [k \in DOMAIN Limit(o, limit) |-> LogDict(o[k])] :
      o \in OrderByTimestampDesc({lg[i] : i \in DOMAIN lg}) }

\* The rows of SELECT topic, COUNT(*) FROM lg GROUP BY topic, as a function
\* from topic to count, built a row at a time.
RECURSIVE GroupCountByTopic(_)
GroupCountByTopic(lg) ==
    IF lg = <<>> THEN [t \in {} |-> 0]
    ELSE LET rest == GroupCountByTopic(SubSeq(lg, 1, Len(lg) - 1))
             row  == lg[Len(lg)]
         IN  [t \in DOMAIN rest \cup {row.topic} |->
                 (IF t \in DOMAIN rest THEN rest[t] ELSE 0)
                 + (IF t = row.topic THEN 1 ELSE 0)]

\* Mutant: only the entries of action "add" are counted.
db_get_activity_stats_add_only(lg) ==
    GroupCountByTopic(SelectSeq(lg, LAMBDA row : row.action = "add"))

\* Database.get_activity_stats: the dict stats, one key per row of the
\* grouped query (ORDER BY count DESC decides only the order of insertion
\* into the dict).
db_get_activity_stats(lg) == GroupCountByTopic(lg)

-----------------------------------------------------------------------------
(* Sample data and construction *)

\* Database.init_sample_data: sample_data, in the dict's insertion order
sample_data ==
    << << <<"N","a","u","k","a">>,
          << <<"N","a","u","k","a"," ","-"," ","e","t","o"," ","o","r","g","a","n","i","z","o","v","a","n","n","o","e"," ","z","n","a","n","i","e",".">>,
             <<"V"," ","n","a","u","k","e"," ","n","e","t"," ","w","i","r","o","k","o","i"," ","s","t","o","l","b","o","v","o","i"," ","d","o","r","o","g","i",".">> >> >>,
       << <<"F","i","l","o","s","o","f","i","a">>,
          << <<"P","o","z","n","a","i"," ","s","a","m","o","g","o"," ","s","e","b","a",".">>,
             <<"A"," ","z","n","a","u",","," ","c","t","o"," ","n","i","c","e","g","o"," ","n","e"," ","z","n","a","u",".">> >> >>,
       << <<"M","o","t","i","v","a","c","i","a">>,
          << <<"U","s","p","e","h"," ","-"," ","e","t","o"," ","s","p","o","s","o","b","n","o","s","t","'"," ","i","d","t","i"," ","o","t"," ","n","e","u","d","a","c","i"," ","k"," ","n","e","u","d","a","c","e",","," ","n","e"," ","t","e","r","a","a"," ","e","n","t","u","z","i","a","z","m","a",".">> >> >> >>

\* for quote_content in quotes: self.add_quote(topic_id, quote_content)
RECURSIVE AddSampleQuotes(_, _, _, _)
AddSampleQuotes(qt, topic_id, contents, ats) ==
    IF contents = <<>> THEN qt
    ELSE AddSampleQuotes(db_add_quote(qt, topic_id, Head(contents), Head(ats)).quotes,
                         topic_id, Tail(contents), Tail(ats))

\* Database.init_sample_data; ats are the clock readings of the add_quote
\* calls, in order.
RECURSIVE init_sample_data(_, _, _, _)
init_sample_data(tp, qt, data, ats) ==
    IF data = <<>> THEN [topics |-> tp, quotes |-> qt]
    ELSE LET added == db_add_topic(tp, Head(data)[1])
             n     == Len(Head(data)[2])
         IN  init_sample_data(
                 added.topics,
                 AddSampleQuotes(qt, added.ret[1], Head(data)[2], SubSeq(ats, 1, n)),
                 Tail(data),
                 SubSeq(ats, n + 1, Len(ats)))

\* Mutant: init_sample_data is called without the test.
is_database_empty_untested(tp) == TRUE

\* Database.is_database_empty
is_database_empty(tp) == Len(tp) = 0

\* Database.init_database on the tables tp, qt: CREATE TABLE IF NOT EXISTS
\* keeps what is there; sample data is added when topics is empty.
init_database(tp, qt, ats) ==
    IF is_database_empty(tp)
    THEN init_sample_data(tp, qt, sample_data, ats)
    ELSE [topics |-> tp, quotes |-> qt]

\* The callers that may run add_quote at the same time (threads that share
\* the generator; the connection is opened with check_same_thread=False).
Callers == {1, 2}

\* A caller that has not called: pc is the statement it is at.
NoCall ==
    [pc |-> "idle", topic |-> <<>>, content |-> <<>>, topic_id |-> <<>>,
     found |-> <<>>, exc |-> "", crashed |-> FALSE]

Call(op, args, exc, exc_topic, ret) ==
    [op |-> op, args |-> args, exc |-> exc, exc_topic |-> exc_topic, ret |-> ret]

\* QuoteGenerator(db_file) on a data file that does not exist yet.
Init ==
    \E ats \in SeedTimes :
        LET db == init_database(<<>>, <<>>, ats)
        IN  /\ topics = db.topics
            /\ quotes = db.quotes
            /\ activity_log = <<>>
            /\ conn = get_connection(FALSE)
            /\ now = ats[Len(ats)]
            /\ calls = [p \in Callers |-> NoCall]
            /\ last = Call("__init__", <<>>, "", None, <<>>)

-----------------------------------------------------------------------------
(* Service layer: class QuoteGenerator *)

\* Mutant: the content is stored as given, not stripped.
svc_add_quote_unstripped(tp, qt, lg, topic, content, at_q, at_l) ==
    IF ~TruthyStr(topic) \/ ~TruthyStr(strip(topic))
    THEN [exc |-> "EmptyTopicException",
          topics |-> tp, quotes |-> qt, activity_log |-> lg]
    ELSE IF ~TruthyStr(content) \/ ~TruthyStr(strip(content))
    THEN [exc |-> "EmptyContentException",
          topics |-> tp, quotes |-> qt, activity_log |-> lg]
    ELSE LET t        == strip(topic)
             found    == db_get_topic_id(tp, t)
             added    == db_add_topic(tp, t)
             topic_id == IF TruthyId(found) THEN found ELSE added.ret
         IN  [exc |-> "",
              topics |-> IF TruthyId(found) THEN tp ELSE added.topics,
              quotes |-> db_add_quote(qt, topic_id[1], content, at_q).quotes,
              activity_log |-> db_add_activity_log(lg, "add", t, content, at_l)]

\* Mutant: only "not topic" / "not content" are tested, not the stripped text.
svc_add_quote_no_strip_test(tp, qt, lg, topic, content, at_q, at_l) ==
    IF ~TruthyStr(topic)
    THEN [exc |-> "EmptyTopicException",
          topics |-> tp, quotes |-> qt, activity_log |-> lg]
    ELSE IF ~TruthyStr(content)
    THEN [exc |-> "EmptyContentException",
          topics |-> tp, quotes |-> qt, activity_log |-> lg]
    ELSE LET t        == strip(topic)
             c        == strip(content)
             found    == db_get_topic_id(tp, t)
             added    == db_add_topic(tp, t)
             topic_id == IF TruthyId(found) THEN found ELSE added.ret
         IN  [exc |-> "",
              topics |-> IF TruthyId(found) THEN tp ELSE added.topics,
              quotes |-> db_add_quote(qt, topic_id[1], c, at_q).quotes,
              activity_log |-> db_add_activity_log(lg, "add", t, c, at_l)]

\* Mutant: the content is validated after the topic was resolved or created.
svc_add_quote_late_validation(tp, qt, lg, topic, content, at_q, at_l) ==
    IF ~TruthyStr(topic) \/ ~TruthyStr(strip(topic))
    THEN [exc |-> "EmptyTopicException",
          topics |-> tp, quotes |-> qt, activity_log |-> lg]
    ELSE LET t        == strip(topic)
             c        == strip(content)
             found    == db_get_topic_id(tp, t)
             added    == db_add_topic(tp, t)
             topic_id == IF TruthyId(found) THEN found ELSE added.ret
             tp2      == IF TruthyId(found) THEN tp ELSE added.topics
         IN  IF ~TruthyStr(content) \/ ~TruthyStr(c)
             THEN [exc |-> "EmptyContentException",
                   topics |-> tp2, quotes |-> qt, activity_log |-> lg]
             ELSE [exc |-> "",
                   topics |-> tp2,
                   quotes |-> db_add_quote(qt, topic_id[1], c, at_q).quotes,
                   activity_log |-> db_add_activity_log(lg, "add", t, c, at_l)]

\* Mutant: the activity entry carries the topic and content as given.
svc_add_quote_logs_untrimmed(tp, qt, lg, topic, content, at_q, at_l) ==
    IF ~TruthyStr(topic) \/ ~TruthyStr(strip(topic))
    THEN [exc |-> "EmptyTopicException",
          topics |-> tp, quotes |-> qt, activity_log |-> lg]
    ELSE IF ~TruthyStr(content) \/ ~TruthyStr(strip(content))
    THEN [exc |-> "EmptyContentException",
          topics |-> tp, quotes |-> qt, activity_log |-> lg]
    ELSE LET t        == strip(topic)
             c        == strip(content)
             found    == db_get_topic_id(tp, t)
             added    == db_add_topic(tp, t)
             topic_id == IF TruthyId(found) THEN found ELSE added.ret
         IN  [exc |-> "",
              topics |-> IF TruthyId(found) THEN tp ELSE added.topics,
              quotes |-> db_add_quote(qt, topic_id[1], c, at_q).quotes,
              activity_log |-> db_add_activity_log(lg, "add", topic, content, at_l)]

\* QuoteGenerator.add_quote: the exception raised ("" for none) and the
\* tables afterwards; at_q and at_l are the clock readings of
\* Database.add_quote and Database.add_activity_log.
svc_add_quote(tp, qt, lg, topic, content, at_q, at_l) ==
    IF ~TruthyStr(topic) \/ ~TruthyStr(strip(topic))
    THEN [exc |-> "EmptyTopicException",
          topics |-> tp, quotes |-> qt, activity_log |-> lg]
    ELSE IF ~TruthyStr(content) \/ ~TruthyStr(strip(content))
    THEN [exc |-> "EmptyContentException",
          topics |-> tp, quotes |-> qt, activity_log |-> lg]
    ELSE LET t        == strip(topic)
             c        == strip(content)
             found    == db_get_topic_id(tp, t)
             added    == db_add_topic(tp, t)
             topic_id == IF TruthyId(found) THEN found ELSE added.ret
         IN  [exc |-> "",
              topics |-> IF TruthyId(found) THEN tp ELSE added.topics,
              quotes |-> db_add_quote(qt, topic_id[1], c, at_q).quotes,
              activity_log |-> db_add_activity_log(lg, "add", t, c, at_l)]

\* Mutant: an empty list raises TopicNotFoundException without the
\* existence check.
svc_get_quotes_by_topic_no_existence_check(tp, qt, topic) ==
    IF ~TruthyStr(topic)
    THEN {[exc |-> "EmptyTopicException", exc_topic |-> None, ret |-> <<>>]}
    ELSE { IF found = <<>>
           THEN [exc |-> "TopicNotFoundException", exc_topic |-> topic, ret |-> <<>>]
           ELSE [exc |-> "", exc_topic |-> None, ret |-> found] :
           found \in db_get_quotes_by_topic(qt, tp, topic) }

\* QuoteGenerator.get_quotes_by_topic: the set of outcomes (one for each
\* list the storage query can return).
svc_get_quotes_by_topic(tp, qt, topic) ==
    IF ~TruthyStr(topic)
    THEN {[exc |-> "EmptyTopicException", exc_topic |-> None, ret |-> <<>>]}
    ELSE { IF found = <<>> /\ ~TruthyId(db_get_topic_id(tp, topic))
           THEN [exc |-> "TopicNotFoundException", exc_topic |-> topic, ret |-> <<>>]
           ELSE [exc |-> "", exc_topic |-> None, ret |-> found] :
           found \in db_get_quotes_by_topic(qt, tp, topic) }

\* Mutant: the view is logged whether or not a quote was found.
svc_get_random_quote_always_logs(tp, qt, lg, topic, at) ==
    { [ret |-> quote,
       activity_log |->
           IF quote # <<>>
           THEN db_add_activity_log(lg, "view", quote[1].topic, quote[1].content, at)
           ELSE db_add_activity_log(lg, "view",
                                    IF TruthyStr(topic) THEN topic ELSE <<"a","l","l">>,
                                    <<>>, at)] :
      quote \in db_get_random_quote(qt, tp, topic) }

\* topic or "all"
TopicOrAll(topic) == IF TruthyStr(topic) THEN topic ELSE <<"a", "l", "l">>

\* quote.get("topic", default) on the dict of a quote
GetTopic(quote, default) ==
    IF "topic" \in DOMAIN quote THEN quote.topic ELSE default

\* Mutant: the entry is written with the topic that was asked for.
svc_get_random_quote_logs_requested(tp, qt, lg, topic, at) ==
    { [ret |-> quote,
       activity_log |->
           IF quote # <<>>
           THEN db_add_activity_log(lg, "view", TopicOrAll(topic),
                                    quote[1].content, at)
           ELSE lg] :
      quote \in db_get_random_quote(qt, tp, topic) }

\* QuoteGenerator.get_random_quote: the set of outcomes, one for each row
\* the storage may draw.
svc_get_random_quote(tp, qt, lg, topic, at) ==
    { [ret |-> quote,
       activity_log |->
           IF quote # <<>>
           THEN db_add_activity_log(lg, "view",
                                    GetTopic(quote[1], TopicOrAll(topic)),
                                    quote[1].content, at)
           ELSE lg] :
      quote \in db_get_random_quote(qt, tp, topic) }

-----------------------------------------------------------------------------
(* Actions: one per call on the storage or the service *)

RowCount(tp, qt, lg) == Len(tp) + Len(qt) + Len(lg)

\* db.add_topic(topic_name)
Database_add_topic(topic_name) ==
    LET r == db_add_topic(topics, topic_name)
    IN  /\ RowCount(r.topics, quotes, activity_log) <= MaxRows
        /\ topics' = r.topics
        /\ UNCHANGED <<quotes, activity_log, now>>
        /\ conn' = get_connection(conn)
        /\ UNCHANGED calls
        /\ last' = Call("Database.add_topic", <<topic_name>>, "", None, r.ret)

\* db.add_quote(topic_id, content)
Database_add_quote(topic_id, content) ==
    LET r == db_add_quote(quotes, topic_id, content, now)
    IN  /\ RowCount(topics, r.quotes, activity_log) <= MaxRows
        /\ quotes' = r.quotes
        /\ UNCHANGED <<topics, activity_log, now>>
        /\ conn' = get_connection(conn)
        /\ UNCHANGED calls
        /\ last' = Call("Database.add_quote", <<topic_id, content>>, "", None, r.ret)

\* generator.log_activity(action, topic, content), which is
\* db.add_activity_log(action, topic, content)
QuoteGenerator_log_activity(action, topic, content) ==
    /\ RowCount(topics, quotes, activity_log) < MaxRows
    /\ activity_log' = db_add_activity_log(activity_log, action, topic, content, now)
    /\ UNCHANGED <<topics, quotes, now>>
    /\ conn' = get_connection(conn)
    /\ UNCHANGED calls
    /\ last' = Call("QuoteGenerator.log_activity", <<action, topic, content>>,
                    "", None, <<>>)

\* generator.add_quote(topic, content)
QuoteGenerator_add_quote(topic, content) ==
    LET r == svc_add_quote(topics, quotes, activity_log, topic, content, now, now)
    IN  /\ RowCount(r.topics, r.quotes, r.activity_log) <= MaxRows
        /\ topics' = r.topics
        /\ quotes' = r.quotes
        /\ activity_log' = r.activity_log
        /\ UNCHANGED now
        /\ conn' = (IF r.exc = "" THEN get_connection(conn) ELSE conn)
        /\ UNCHANGED calls
        /\ last' = Call("QuoteGenerator.add_quote", <<topic, content>>,
                        r.exc, None, <<>>)

\* generator.get_quotes_by_topic(topic)
QuoteGenerator_get_quotes_by_topic(topic) ==
    \E r \in svc_get_quotes_by_topic(topics, quotes, topic) :
        /\ UNCHANGED <<topics, quotes, activity_log, now>>
        /\ conn' = (IF r.exc = "EmptyTopicException" THEN conn
                    ELSE get_connection(conn))
        /\ UNCHANGED calls
        /\ last' = Call("QuoteGenerator.get_quotes_by_topic", <<topic>>,
                        r.exc, r.exc_topic, r.ret)

\* generator.get_random_quote(topic)
QuoteGenerator_get_random_quote(topic) ==
    \E r \in svc_get_random_quote(topics, quotes, activity_log, topic, now) :
        /\ RowCount(topics, quotes, r.activity_log) <= MaxRows
        /\ activity_log' = r.activity_log
        /\ UNCHANGED <<topics, quotes, now>>
        /\ conn' = get_connection(conn)
        /\ UNCHANGED calls
        /\ last' = Call("QuoteGenerator.get_random_quote", <<topic>>,
                        "", None, r.ret)

\* generator.get_topics(), which is db.get_all_topics()
QuoteGenerator_get_topics ==
    \E r \in db_get_all_topics(topics) :
        /\ UNCHANGED <<topics, quotes, activity_log, now>>
        /\ conn' = get_connection(conn)
        /\ UNCHANGED calls
        /\ last' = Call("QuoteGenerator.get_topics", <<>>, "", None, r)

\* db.get_activity_log(limit)
Database_get_activity_log(limit) ==
    \E r \in db_get_activity_log(activity_log, limit) :
        /\ UNCHANGED <<topics, quotes, activity_log, now>>
        /\ conn' = get_connection(conn)
        /\ UNCHANGED calls
        /\ last' = Call("Database.get_activity_log", <<limit>>, "", None, r)

\* generator.activity_log, which is db.get_activity_log(limit=100)
AccessorLimit == 100
QuoteGenerator_activity_log ==
    \E r \in db_get_activity_log(activity_log, AccessorLimit) :
        /\ UNCHANGED <<topics, quotes, activity_log, now>>
        /\ conn' = get_connection(conn)
        /\ UNCHANGED calls
        /\ last' = Call("QuoteGenerator.activity_log", <<>>, "", None, r)

\* generator.get_activity_stats(), which is db.get_activity_stats()
QuoteGenerator_get_activity_stats ==
    /\ UNCHANGED <<topics, quotes, activity_log, now>>
    /\ conn' = get_connection(conn)
    /\ UNCHANGED calls
    /\ last' = Call("QuoteGenerator.get_activity_stats", <<>>, "", None,
                    db_get_activity_stats(activity_log))

\* generator.close(), which is db.close()
QuoteGenerator_close ==
    LET r == db_close(conn)
    IN  /\ conn' = r.conn
        /\ UNCHANGED <<topics, quotes, activity_log, now>>
        /\ UNCHANGED calls
        /\ last' = Call("QuoteGenerator.close", <<>>, r.exc, None, <<>>)

\* QuoteGenerator(db_file) on the data file as it is now: a new Database
\* object (conn None) runs init_database on the stored tables.
QuoteGenerator_init ==
    LET db == init_database(topics, quotes, [i \in 1..5 |-> now])
    IN  /\ topics' = db.topics
        /\ quotes' = db.quotes
        /\ conn' = get_connection(FALSE)
        /\ UNCHANGED <<activity_log, now>>
        /\ UNCHANGED calls
        /\ last' = Call("QuoteGenerator.__init__", <<>>, "", None, <<>>)

\* Time passes between two calls: the clock advances by one tick.
Tick ==
    /\ now + 1 \in Times
    /\ now' = now + 1
    /\ UNCHANGED <<topics, quotes, activity_log, conn, calls, last>>

Next ==
    \/ \E n \in StorageTopics : Database_add_topic(n)
    \/ \E i \in StorageTopicIds, c \in StorageContents : Database_add_quote(i, c)
    \/ \E a \in LogInputs : QuoteGenerator_log_activity(a[1], a[2], a[3])
    \/ \E a \in AddQuoteInputs : QuoteGenerator_add_quote(a[1], a[2])
    \/ \E t \in GetQuotesTopics : QuoteGenerator_get_quotes_by_topic(t)
    \/ \E t \in RandomTopics : QuoteGenerator_get_random_quote(t)
    \/ QuoteGenerator_get_topics
    \/ \E n \in StorageLimits : Database_get_activity_log(n)
    \/ QuoteGenerator_activity_log
    \/ QuoteGenerator_get_activity_stats
    \/ QuoteGenerator_close
    \/ QuoteGenerator_init
    \/ Tick

Spec == Init /\ [][Next]_vars

-----------------------------------------------------------------------------
(* The two reads of the storage that the calls above use only inside other  *)
(* calls, called by themselves.                                             *)

\* names given to db.get_topic_id: one that is stored and one that may not be
TopicIdNames == { <<"a">>, <<"N","a","u","k","a">> }

\* Mutant: get-or-create, a name that is not stored is inserted.
Database_get_topic_id_creating(topic_name) ==
    LET r == db_add_topic(topics, topic_name)
    IN  /\ RowCount(r.topics, quotes, activity_log) <= MaxRows
        /\ topics' = r.topics
        /\ UNCHANGED <<quotes, activity_log, now>>
        /\ conn' = get_connection(conn)
        /\ UNCHANGED calls
        /\ last' = Call("Database.get_topic_id", <<topic_name>>, "", None, r.ret)

\* db.get_topic_id(topic_name)
Database_get_topic_id(topic_name) ==
    /\ UNCHANGED <<topics, quotes, activity_log, now>>
    /\ conn' = get_connection(conn)
    /\ UNCHANGED calls
    /\ last' = Call("Database.get_topic_id", <<topic_name>>, "", None,
                    db_get_topic_id(topics, topic_name))

\* db.get_all_quotes()
Database_get_all_quotes ==
    \E r \in db_get_all_quotes(quotes, topics) :
        /\ UNCHANGED <<topics, quotes, activity_log, now>>
        /\ conn' = get_connection(conn)
        /\ UNCHANGED calls
        /\ last' = Call("Database.get_all_quotes", <<>>, "", None, r)

NextReads ==
    \/ Next
    \/ \E n \in TopicIdNames : Database_get_topic_id(n)
    \/ Database_get_all_quotes

SpecReads == Init /\ [][NextReads]_vars

-----------------------------------------------------------------------------
(* QuoteGenerator.add_quote statement by statement, for callers that run    *)
(* at the same time.  Each storage call is one step: its INSERT and its     *)
(* commit.                                                                  *)

\* (topic, content) a caller gives to add_quote; the contents of the two
\* callers differ, so that the rows of each can be told apart.
StepTopics == { <<" ">>, <<" ", "a">>, <<"a", " ">>, <<"N","a","u","k","a">> }
StepContents == << <<" ", "x">>, <<"y", " ">> >>

\* Caller p is at statement pc and has not crashed.
At(p, pc) == calls[p].pc = pc /\ ~calls[p].crashed

StoreSteps(p, rec) ==
    /\ calls' = [calls EXCEPT ![p] = rec]
    /\ conn' = get_connection(conn)
    /\ UNCHANGED <<now, last>>

\* lines 71-78: the validation and the two strips
Step_validate(p, topic, content) ==
    /\ At(p, "idle")
    /\ calls' = [calls EXCEPT ![p] =
           IF ~TruthyStr(topic) \/ ~TruthyStr(strip(topic))
           THEN [@ EXCEPT !.pc = "raised", !.exc = "EmptyTopicException"]
           ELSE IF ~TruthyStr(content) \/ ~TruthyStr(strip(content))
           THEN [@ EXCEPT !.pc = "raised", !.exc = "EmptyContentException"]
           ELSE [@ EXCEPT !.pc = "get_topic_id",
                          !.topic = strip(topic), !.content = strip(content)]]
    /\ UNCHANGED <<topics, quotes, activity_log, conn, now, last>>

\* line 81: topic_id = self.db.get_topic_id(topic), and the test of line 82
Step_get_topic_id(p) ==
    /\ At(p, "get_topic_id")
    /\ LET found == db_get_topic_id(topics, calls[p].topic)
       IN  StoreSteps(p, [calls[p] EXCEPT
                             !.found = found, !.topic_id = found,
                             !.pc = IF ~TruthyId(found) THEN "add_topic"
                                    ELSE "add_quote"])
    /\ UNCHANGED <<topics, quotes, activity_log>>

\* line 83: topic_id = self.db.add_topic(topic)
Step_add_topic(p) ==
    /\ At(p, "add_topic")
    /\ LET r == db_add_topic(topics, calls[p].topic)
       IN  /\ topics' = r.topics
           /\ StoreSteps(p, [calls[p] EXCEPT !.topic_id = r.ret,
                                             !.pc = "add_quote"])
    /\ UNCHANGED <<quotes, activity_log>>

\* Mutant: the quote and its activity entry are written in one step.
Step_add_quote_with_log(p) ==
    /\ At(p, "add_quote")
    /\ calls[p].topic_id # <<>>
    /\ quotes' = db_add_quote(quotes, calls[p].topic_id[1],
                              calls[p].content, now).quotes
    /\ activity_log' = db_add_activity_log(activity_log, "add", calls[p].topic,
                                           calls[p].content, now)
    /\ StoreSteps(p, [calls[p] EXCEPT !.pc = "add_activity_log"])
    /\ UNCHANGED topics

\* line 86: self.db.add_quote(topic_id, content).  A topic_id of None
\* violates NOT NULL of quotes.topic_id and the INSERT raises.
Step_add_quote(p) ==
    /\ At(p, "add_quote")
    /\ IF calls[p].topic_id = <<>>
       THEN /\ StoreSteps(p, [calls[p] EXCEPT !.pc = "raised",
                                              !.exc = "IntegrityError"])
            /\ UNCHANGED quotes
       ELSE /\ quotes' = db_add_quote(quotes, calls[p].topic_id[1],
                                      calls[p].content, now).quotes
            /\ StoreSteps(p, [calls[p] EXCEPT !.pc = "add_activity_log"])
    /\ UNCHANGED <<topics, activity_log>>

\* line 89: self.db.add_activity_log("add", topic, content)
Step_add_activity_log(p) ==
    /\ At(p, "add_activity_log")
    /\ activity_log' = db_add_activity_log(activity_log, "add", calls[p].topic,
                                           calls[p].content, now)
    /\ StoreSteps(p, [calls[p] EXCEPT !.pc = "returned"])
    /\ UNCHANGED <<topics, quotes>>

\* The caller stops between two statements of its call and never resumes.
Crash(p) ==
    /\ ~calls[p].crashed
    /\ calls[p].pc \in {"get_topic_id", "add_topic", "add_quote", "add_activity_log"}
    /\ calls' = [calls EXCEPT ![p].crashed = TRUE]
    /\ UNCHANGED <<topics, quotes, activity_log, conn, now, last>>

NextSteps ==
    \/ \E p \in Callers, t \in StepTopics : Step_validate(p, t, StepContents[p])
    \/ \E p \in Callers : Step_get_topic_id(p)
    \/ \E p \in Callers : Step_add_topic(p)
    \/ \E p \in Callers : Step_add_quote(p)
    \/ \E p \in Callers : Step_add_activity_log(p)
    \/ \E p \in Callers : Crash(p)
    \/ Tick

SpecSteps == Init /\ [][NextSteps]_vars

-----------------------------------------------------------------------------
(* Vocabulary of the properties, stated on the tables themselves *)

\* s is empty or consists only of whitespace
IsBlank(s) == \A i \in DOMAIN s : s[i] \in Whitespace

\* a topic record named name exists
TopicExists(name) == \E i \in DOMAIN topics : topics[i].name = name

\* the quote rows owned by a topic record named name
QuotesOfTopic(name) ==
    { quotes[k] : k \in { i \in DOMAIN quotes :
                            \E j \in DOMAIN topics :
                                /\ topics[j].name = name
                                /\ topics[j].id = quotes[i].topic_id } }

ValidationErrors == {"EmptyTopicException", "EmptyContentException"}

StoreUnchanged ==
    /\ topics' = topics
    /\ quotes' = quotes
    /\ activity_log' = activity_log

\* The step is a call (the clock does not move during a call).
IsCall(op) == last'.op = op /\ now' = now

-----------------------------------------------------------------------------
(* C1 *)

\* C1 as stated: a successful add_quote(T, C) with non-empty T and C,
\* followed by get_quotes_by_topic(T), returns a list with a record whose
\* content is C.
C1_AsStated ==
    [][ ( /\ last.op = "QuoteGenerator.add_quote"
          /\ last.exc = ""
          /\ last.args[1] # <<>> /\ last.args[2] # <<>>
          /\ IsCall("QuoteGenerator.get_quotes_by_topic")
          /\ last'.args[1] = last.args[1] )
        => ( /\ last'.exc = ""
             /\ \E k \in DOMAIN last'.ret : last'.ret[k].content = last.args[2] )
      ]_vars

\* C1 (amended): a successful add_quote(T, C), followed by
\* get_quotes_by_topic(strip(T)), returns without error a list with a record
\* whose content is strip(C).
C1_AddThenGetStripped ==
    [][ ( /\ last.op = "QuoteGenerator.add_quote"
          /\ last.exc = ""
          /\ IsCall("QuoteGenerator.get_quotes_by_topic")
          /\ last'.args[1] = strip(last.args[1]) )
        => ( /\ last'.exc = ""
             /\ \E k \in DOMAIN last'.ret :
                    last'.ret[k].content = strip(last.args[2]) )
      ]_vars

\* add_quote(" a", " x") has run and get_quotes_by_topic("a") returned "x".
C1_Witness ==
    /\ last.op = "QuoteGenerator.get_quotes_by_topic"
    /\ last.args = << <<"a">> >>
    /\ last.exc = ""
    /\ \E k \in DOMAIN last.ret : last.ret[k].content = <<"x">>
    /\ \E i \in DOMAIN activity_log :
           activity_log[i].action = "add" /\ activity_log[i].topic = <<"a">>

-----------------------------------------------------------------------------
(* C2 *)

\* C2: add_quote raises EmptyTopicException when the topic is blank (whatever
\* the content), and EmptyContentException when the topic is not blank and
\* the content is blank.
C2_AddQuoteValidation ==
    last.op = "QuoteGenerator.add_quote" =>
        /\ IsBlank(last.args[1]) => last.exc = "EmptyTopicException"
        /\ (~IsBlank(last.args[1]) /\ IsBlank(last.args[2]))
               => last.exc = "EmptyContentException"

\* Both arguments whitespace-only: the topic error wins.
C2_Witness ==
    /\ last.op = "QuoteGenerator.add_quote"
    /\ last.args = << <<" ">>, <<" ">> >>
    /\ last.exc = "EmptyTopicException"

-----------------------------------------------------------------------------
(* C3 *)

\* C3: a call of add_quote or get_quotes_by_topic that raises a validation
\* error leaves the three tables as they were.
C3_ValidationErrorWritesNothing ==
    [][ ( /\ \/ IsCall("QuoteGenerator.add_quote")
             \/ IsCall("QuoteGenerator.get_quotes_by_topic")
          /\ last'.exc \in ValidationErrors )
        => StoreUnchanged ]_vars

\* add_quote(" a", blank) was refused and no topic "a" was created.
C3_Witness ==
    /\ last.op = "QuoteGenerator.add_quote"
    /\ last.args[1] = <<" ", "a">>
    /\ last.exc = "EmptyContentException"
    /\ ~TopicExists(<<"a">>)

-----------------------------------------------------------------------------
(* C4 *)

\* C4: get_quotes_by_topic(T) with non-empty T returns the empty list without
\* error when a topic named T exists and owns no quote, raises
\* TopicNotFoundException carrying T when no topic named T exists, and never
\* raises it for an existing topic.
C4_NotFoundIffNoTopic ==
    (last.op = "QuoteGenerator.get_quotes_by_topic" /\ last.args[1] # <<>>) =>
        /\ (TopicExists(last.args[1]) /\ QuotesOfTopic(last.args[1]) = {})
               => (last.exc = "" /\ last.ret = <<>>)
        /\ ~TopicExists(last.args[1])
               => (last.exc = "TopicNotFoundException"
                   /\ last.exc_topic = last.args[1])
        /\ last.exc = "TopicNotFoundException" => ~TopicExists(last.args[1])

\* Topic "a" exists without quotes and the lookup returned [].
C4_Witness ==
    /\ last.op = "QuoteGenerator.get_quotes_by_topic"
    /\ last.args = << <<"a">> >>
    /\ TopicExists(<<"a">>)
    /\ QuotesOfTopic(<<"a">>) = {}
    /\ last.exc = ""
    /\ last.ret = <<>>

-----------------------------------------------------------------------------
(* C5 *)

\* C5 as stated: get_quotes_by_topic raises EmptyTopicException whenever the
\* topic is empty or whitespace-only.
C5_AsStated ==
    (last.op = "QuoteGenerator.get_quotes_by_topic" /\ IsBlank(last.args[1]))
        => last.exc = "EmptyTopicException"

-----------------------------------------------------------------------------
(* C6 *)

\* C6: add_topic(name) on a name that already exists returns the identifier
\* of the existing topic and adds no topic record; hence a second add_topic
\* with the same name returns what the first returned.
C6_AddTopicIdempotent ==
    [][ ( IsCall("Database.add_topic") =>
            /\ TopicExists(last'.args[1]) =>
                   /\ topics' = topics
                   /\ \E i \in DOMAIN topics :
                          /\ topics[i].name = last'.args[1]
                          /\ last'.ret = <<topics[i].id>>
            /\ (last.op = "Database.add_topic" /\ last.args = last'.args)
                   => last'.ret = last.ret )
      ]_vars

\* add_topic("a") was the last call and came after a service add_quote on
\* topic "a", so it was called on an existing name.
C6_Witness ==
    /\ last.op = "Database.add_topic"
    /\ last.args = << <<"a">> >>
    /\ last.ret = <<4>>
    /\ \E i \in DOMAIN activity_log :
           activity_log[i].action = "add" /\ activity_log[i].topic = <<"a">>

-----------------------------------------------------------------------------
(* C7 *)

\* C7: no two topic records carry the same name.
C7_TopicNamesUnique ==
    \A i, j \in DOMAIN topics :
        topics[i].name = topics[j].name => i = j

\* A service add_quote has resolved or created topic "a": the three seeded
\* topics and one record named "a".
C7_Witness ==
    /\ last.op = "QuoteGenerator.add_quote"
    /\ last.exc = ""
    /\ Len(topics) = 4
    /\ topics[4].name = <<"a">>
    /\ \E i \in DOMAIN quotes : quotes[i].topic_id = 4

-----------------------------------------------------------------------------
(* C8 *)

\* C8 as stated: get_random_quote(T), for any topic name T that has at least
\* one quote, returns a quote stored under T.
C8_AsStated ==
    ( /\ last.op = "QuoteGenerator.get_random_quote"
      /\ last.args[1] # None
      /\ QuotesOfTopic(last.args[1]) # {} )
    => ( /\ last.ret # <<>>
         /\ last.ret[1].topic = last.args[1] )

\* C8 (amended): for any non-empty topic name T that has at least one quote,
\* get_random_quote(T) returns a record that is a quote stored under T, and
\* each of T's quotes is a possible result.
C8_RandomQuoteOfTopic ==
    /\ ( /\ last.op = "QuoteGenerator.get_random_quote"
         /\ TruthyStr(last.args[1])
         /\ QuotesOfTopic(last.args[1]) # {} )
       => ( /\ last.ret # <<>>
            /\ last.ret[1].topic = last.args[1]
            /\ \E q \in QuotesOfTopic(last.args[1]) :
                   /\ q.id = last.ret[1].id
                   /\ q.content = last.ret[1].content
                   /\ q.created_at = last.ret[1].date )
    /\ \A T \in RandomTopics :
           (TruthyStr(T) /\ QuotesOfTopic(T) # {}) =>
               \A q \in QuotesOfTopic(T) :
                   \E r \in db_get_random_quote(quotes, topics, T) :
                       r # <<>> /\ r[1].id = q.id

\* The second of the two seeded quotes of the first sample topic was drawn.
C8_Witness ==
    /\ last.op = "QuoteGenerator.get_random_quote"
    /\ last.args = << <<"N","a","u","k","a">> >>
    /\ last.ret # <<>>
    /\ last.ret[1].id = 2

-----------------------------------------------------------------------------
(* C9 *)

\* C9 as stated: get_random_quote(T), for any given topic name T that owns no
\* quote or does not exist, returns None.
C9_AsStated ==
    ( /\ last.op = "QuoteGenerator.get_random_quote"
      /\ last.args[1] # None
      /\ QuotesOfTopic(last.args[1]) = {} )
    => ( last.exc = "" /\ last.ret = <<>> )

\* C9 (amended): for any non-empty topic name T that owns no quote or does
\* not exist, get_random_quote(T) returns None and raises nothing.
C9_RandomQuoteAbsent ==
    ( /\ last.op = "QuoteGenerator.get_random_quote"
      /\ TruthyStr(last.args[1])
      /\ QuotesOfTopic(last.args[1]) = {} )
    => ( last.exc = "" /\ last.ret = <<>> )

\* Topic "a" exists without quotes and get_random_quote("a") returned None.
C9_Witness ==
    /\ last.op = "QuoteGenerator.get_random_quote"
    /\ last.args = << <<"a">> >>
    /\ TopicExists(<<"a">>)
    /\ QuotesOfTopic(<<"a">>) = {}
    /\ last.ret = <<>>

-----------------------------------------------------------------------------
(* C10 *)

\* C10: a call of get_random_quote appends exactly one activity entry, with
\* action "view", when it returns a quote, leaves the activity log unchanged
\* when it returns None, and never changes topics or quotes.
C10_RandomQuoteLogsView ==
    [][ IsCall("QuoteGenerator.get_random_quote") =>
            /\ topics' = topics
            /\ quotes' = quotes
            /\ last'.ret # <<>> =>
                   /\ Len(activity_log') = Len(activity_log) + 1
                   /\ SubSeq(activity_log', 1, Len(activity_log)) = activity_log
                   /\ activity_log'[Len(activity_log')].action = "view"
            /\ last'.ret = <<>> => activity_log' = activity_log
      ]_vars

\* A quote was returned and the newest activity entry is its "view" entry.
C10_Witness ==
    /\ last.op = "QuoteGenerator.get_random_quote"
    /\ last.ret # <<>>
    /\ activity_log # <<>>
    /\ activity_log[Len(activity_log)].action = "view"
    /\ activity_log[Len(activity_log)].topic = last.ret[1].topic

-----------------------------------------------------------------------------
(* C11 *)

\* the first n characters of s (all of s when it has at most n)
FirstChars(s, n) == [i \in {k \in DOMAIN s : k <= n} |-> s[i]]

\* The content handed to Database.add_activity_log by the call the step is.
LoggedContent ==
    CASE last'.op = "QuoteGenerator.log_activity" -> last'.args[3]
      [] last'.op = "QuoteGenerator.add_quote" -> strip(last'.args[2])
      [] last'.op = "QuoteGenerator.get_random_quote" -> last'.ret[1].content

\* C11: no stored activity entry has content longer than 50 characters, and
\* the entry a call appends (log_activity, add_quote, get_random_quote) has
\* as content the first 50 characters of the content passed to the logging
\* call, which is the whole content when that has at most 50 characters.
C11_LogContentTruncated ==
    /\ [](\A i \in DOMAIN activity_log : Len(activity_log[i].content) <= 50)
    /\ [][ Len(activity_log') = Len(activity_log) + 1 =>
              /\ activity_log'[Len(activity_log')].content
                     = FirstChars(LoggedContent, 50)
              /\ Len(LoggedContent) <= 50 =>
                     activity_log'[Len(activity_log')].content = LoggedContent
         ]_vars

\* The seeded quote of 71 characters was drawn and its "view" entry holds 50
\* characters.
C11_Witness ==
    /\ last.op = "QuoteGenerator.get_random_quote"
    /\ last.ret # <<>>
    /\ Len(last.ret[1].content) = 71
    /\ Len(activity_log[Len(activity_log)].content) = 50
    /\ activity_log[Len(activity_log)].action = "view"

-----------------------------------------------------------------------------
(* C12 *)

\* the topic names that occur in the activity log lg
LoggedTopics(lg) == {lg[i].topic : i \in DOMAIN lg}

\* the number of entries of lg, of any action, with topic name
EntriesOf(lg, name) == Cardinality({i \in DOMAIN lg : lg[i].topic = name})

\* the count get_activity_stats would report for name on the log lg (0 when
\* name is not a key)
StatsCount(lg, name) ==
    IF name \in DOMAIN db_get_activity_stats(lg)
    THEN db_get_activity_stats(lg)[name] ELSE 0

\* C12: get_activity_stats returns a mapping whose keys are exactly the topic
\* names that occur in the activity log and whose value for a name is the
\* number of entries, of any action, with that name; a successful add_quote
\* on topic A (the name after trimming) raises the count of A by one and no
\* call lowers a count, so after k such calls the count of A is at least k.
C12_ActivityStats ==
    /\ [](last.op = "QuoteGenerator.get_activity_stats" =>
             /\ DOMAIN last.ret = LoggedTopics(activity_log)
             /\ \A name \in LoggedTopics(activity_log) :
                    last.ret[name] = EntriesOf(activity_log, name))
    /\ [][ /\ (IsCall("QuoteGenerator.add_quote") /\ last'.exc = "") =>
                 StatsCount(activity_log', strip(last'.args[1]))
                     = StatsCount(activity_log, strip(last'.args[1])) + 1
            /\ \A name \in LoggedTopics(activity_log) :
                   StatsCount(activity_log', name) >= StatsCount(activity_log, name)
         ]_vars

\* The log holds two "view" entries of one topic and a "delete" entry of
\* another; the statistics have the two keys, with counts 2 and 1.
C12_Witness ==
    /\ last.op = "QuoteGenerator.get_activity_stats"
    /\ Cardinality(DOMAIN last.ret) = 2
    /\ <<"a">> \in DOMAIN last.ret
    /\ last.ret[<<"a">>] = 1
    /\ \E name \in DOMAIN last.ret : last.ret[name] = 2
    /\ \E i \in DOMAIN activity_log : activity_log[i].action = "view"

-----------------------------------------------------------------------------
(* C13 *)

\* The last call read the activity log with this limit.
ReadLog ==
    last.op \in {"Database.get_activity_log", "QuoteGenerator.activity_log"}
LimitOfLast ==
    IF last.op = "QuoteGenerator.activity_log" THEN 100 ELSE last.args[1]
Min(a, b) == IF a < b THEN a ELSE b

\* what a caller sees of a stored activity entry
Shown(e) ==
    [action |-> e.action, topic |-> e.topic,
     content |-> e.content, timestamp |-> e.timestamp]

\* C13 as stated: get_activity_log(limit), limit >= 0, returns min(limit, n)
\* entries, the most recently logged ones, the entry logged last at index 0
\* and so on backwards; the accessor is the operation with limit 100.
C13_AsStated ==
    ReadLog =>
        LET n == Len(activity_log)
        IN  /\ Len(last.ret) = Min(LimitOfLast, n)
            /\ \A k \in DOMAIN last.ret :
                   last.ret[k] = Shown(activity_log[n + 1 - k])

\* C13 (amended): get_activity_log(limit), limit >= 0, returns min(limit, n)
\* distinct stored entries in order of non-increasing timestamp, and no entry
\* left out has a later timestamp than a returned one; the accessor is the
\* operation with limit 100.
C13_LogNewestByTimestamp ==
    ReadLog =>
        LET n == Len(activity_log)
            m == Min(LimitOfLast, n)
        IN  /\ Len(last.ret) = m
            /\ \E idx \in [1..m -> 1..n] :
                   /\ \A j, k \in 1..m : idx[j] = idx[k] => j = k
                   /\ \A k \in 1..m : last.ret[k] = Shown(activity_log[idx[k]])
                   /\ \A j, k \in 1..m :
                          j < k => activity_log[idx[j]].timestamp
                                       >= activity_log[idx[k]].timestamp
                   /\ \A i \in 1..n :
                          (\A k \in 1..m : idx[k] # i) =>
                              \A k \in 1..m : activity_log[i].timestamp
                                                  <= activity_log[idx[k]].timestamp

\* Three entries, the last logged at a later clock reading than the first:
\* limit 2 returned two of them, the newest first.
C13_Witness ==
    /\ last.op = "Database.get_activity_log"
    /\ last.args = <<2>>
    /\ Len(activity_log) = 3
    /\ activity_log[1].timestamp < activity_log[3].timestamp
    /\ Len(last.ret) = 2
    /\ last.ret[1] = Shown(activity_log[3])

-----------------------------------------------------------------------------
(* C14 *)

\* The last call was get_quotes_by_topic and it returned a list.
ReturnedQuotes ==
    last.op = "QuoteGenerator.get_quotes_by_topic" /\ last.exc = ""

\* what a caller of get_quotes_by_topic sees of a stored quote
ShownQuote(q) == [id |-> q.id, content |-> q.content, date |-> q.created_at]

\* the positions in quotes of the quotes owned by a topic named name
QuoteRowsOf(name) ==
    { i \in DOMAIN quotes :
        \E j \in DOMAIN topics :
            topics[j].name = name /\ topics[j].id = quotes[i].topic_id }

\* C14 as stated: get_quotes_by_topic(T) returns exactly the quotes stored
\* under the topic named T, each once, and a quote added later comes before
\* every quote added earlier.
C14_AsStated ==
    ReturnedQuotes =>
        LET own == QuoteRowsOf(last.args[1])
        IN  /\ Len(last.ret) = Cardinality(own)
            /\ \A i \in own : \E k \in DOMAIN last.ret :
                   last.ret[k] = ShownQuote(quotes[i])
            /\ \A j, k \in DOMAIN last.ret :
                   j < k => \E a, b \in own :
                                /\ last.ret[j] = ShownQuote(quotes[a])
                                /\ last.ret[k] = ShownQuote(quotes[b])
                                /\ a > b

\* C14 (amended): get_quotes_by_topic(T) returns exactly the quotes stored
\* under the topic named T, each once and none of another topic, in order of
\* non-increasing creation time: a quote created at a later clock reading
\* comes before every quote of the topic created at an earlier one.
C14_QuotesNewestByTimestamp ==
    ReturnedQuotes =>
        LET own == QuoteRowsOf(last.args[1])
        IN  /\ Len(last.ret) = Cardinality(own)
            /\ \A i \in own : \E k \in DOMAIN last.ret :
                   last.ret[k] = ShownQuote(quotes[i])
            /\ \A k \in DOMAIN last.ret : \E i \in own :
                   last.ret[k] = ShownQuote(quotes[i])
            /\ \A j, k \in DOMAIN last.ret :
                   j < k => last.ret[j].date >= last.ret[k].date

\* Topic "a" owns two quotes added at different clock readings and the
\* lookup returned the later one first.
C14_Witness ==
    /\ ReturnedQuotes
    /\ last.args = << <<"a">> >>
    /\ Len(last.ret) = 2
    /\ last.ret[1].date > last.ret[2].date
    /\ last.ret[1].id > last.ret[2].id

-----------------------------------------------------------------------------
(* C15 *)

SampleNames ==
    { <<"N","a","u","k","a">>,
      <<"F","i","l","o","s","o","f","i","a">>,
      <<"M","o","t","i","v","a","c","i","a">> }

\* C15: a store constructed on no prior data holds at least 3 topics, among
\* them the three sample names, each owning at least one quote; constructing
\* the service on a store that has a topic adds no topic and no quote.
C15_SeedsOnlyEmptyStore ==
    /\ [](last.op = "__init__" =>
             /\ Len(topics) >= 3
             /\ \A name \in SampleNames :
                    TopicExists(name) /\ QuotesOfTopic(name) # {})
    /\ [][ (IsCall("QuoteGenerator.__init__") /\ Len(topics) >= 1) =>
              (topics' = topics /\ quotes' = quotes) ]_vars

\* The store was opened again after a fourth topic and a sixth quote were
\* added, and holds just those.
C15_Witness ==
    /\ last.op = "QuoteGenerator.__init__"
    /\ Len(topics) = 4
    /\ Len(quotes) = 6

-----------------------------------------------------------------------------
(* C16 *)

\* C16: close never raises, leaves the connection released, and changes no
\* topic, quote or activity entry, whether the connection was open or had
\* been released by an earlier close.
C16_CloseIdempotent ==
    /\ [](last.op = "QuoteGenerator.close" => (last.exc = "" /\ conn = FALSE))
    /\ [][ IsCall("QuoteGenerator.close") => StoreUnchanged ]_vars

\* The connection is released by a close that came after calls that wrote
\* to the store.
C16_Witness ==
    /\ last.op = "QuoteGenerator.close"
    /\ conn = FALSE
    /\ activity_log # <<>>
    /\ Len(topics) = 4

-----------------------------------------------------------------------------
(* C17 *)

\* C17 as stated: every stored quote's topic_id is the id of exactly one
\* topic record.
C17_AsStated ==
    \A i \in DOMAIN quotes :
        Cardinality({j \in DOMAIN topics : topics[j].id = quotes[i].topic_id}) = 1

-----------------------------------------------------------------------------
(* C18 *)

\* a comes before b when the characters are compared by key: at the first
\* position where they differ a has the lesser key, or a is a proper prefix
\* of b.
LexBefore(a, b, key(_)) ==
    \E k \in 1..(Len(a) + 1) :
        /\ \A i \in 1..(k - 1) : i <= Len(b) /\ key(a[i]) = key(b[i])
        /\ \/ k = Len(a) + 1 /\ Len(b) >= k
           \/ k <= Len(a) /\ k <= Len(b) /\ key(a[k]) < key(b[k])

\* the code point of a character
CodePoint(c) == 31 + CHOOSE i \in 1..95 : Ascii[i] = c

\* the place of a character in the alphabet: a capital letter counts as its
\* small letter
AlphabetKey(c) ==
    IF CodePoint(c) \in 65..90 THEN CodePoint(c) + 32 ELSE CodePoint(c)

\* The last call was get_topics and returned every stored name, once.
ListedAllNames ==
    /\ Len(last.ret) = Len(topics)
    /\ {last.ret[k] : k \in DOMAIN last.ret}
           = {topics[i].name : i \in DOMAIN topics}

\* A get_topics that follows add_topic(n) or a successful add_quote(T, c)
\* lists n, respectively T without the surrounding whitespace.
ListsCreatedTopic ==
    IsCall("QuoteGenerator.get_topics") =>
        /\ last.op = "Database.add_topic" =>
               \E k \in DOMAIN last'.ret : last'.ret[k] = last.args[1]
        /\ (last.op = "QuoteGenerator.add_quote" /\ last.exc = "") =>
               \E k \in DOMAIN last'.ret : last'.ret[k] = strip(last.args[1])

-----------------------------------------------------------------------------
(* C19 *)

\* b is a with one record appended
OneAppended(a, b) == Len(b) = Len(a) + 1 /\ SubSeq(b, 1, Len(a)) = a

\* C19: a successful add_quote(topic, content) adds one topic named
\* strip(topic) exactly when no topic of that name existed, one quote with
\* content strip(content) owned by the topic named strip(topic), and one
\* activity entry with action "add", topic strip(topic) and content the
\* first 50 characters of strip(content); every record there was is
\* unchanged.
C19_AddQuoteEffects ==
    [][ (IsCall("QuoteGenerator.add_quote") /\ last'.exc = "") =>
            LET t == strip(last'.args[1])
                c == strip(last'.args[2])
            IN  /\ IF TopicExists(t) THEN topics' = topics
                   ELSE /\ OneAppended(topics, topics')
                        /\ topics'[Len(topics')].name = t
                /\ OneAppended(quotes, quotes')
                /\ quotes'[Len(quotes')].content = c
                /\ \E j \in DOMAIN topics' :
                       /\ topics'[j].name = t
                       /\ topics'[j].id = quotes'[Len(quotes')].topic_id
                /\ OneAppended(activity_log, activity_log')
                /\ activity_log'[Len(activity_log')].action = "add"
                /\ activity_log'[Len(activity_log')].topic = t
                /\ activity_log'[Len(activity_log')].content = FirstChars(c, 50)
      ]_vars

\* add_quote(" a", " x") succeeded: the newest quote is "x", owned by the
\* topic "a", and the newest activity entry is ("add", "a", "x").
C19_Witness ==
    /\ last.op = "QuoteGenerator.add_quote"
    /\ last.args = << <<" ", "a">>, <<" ", "x">> >>
    /\ last.exc = ""
    /\ quotes[Len(quotes)].content = <<"x">>
    /\ \E j \in DOMAIN topics :
           topics[j].name = <<"a">> /\ topics[j].id = quotes[Len(quotes)].topic_id
    /\ activity_log # <<>>
    /\ activity_log[Len(activity_log)].action = "add"
    /\ activity_log[Len(activity_log)].topic = <<"a">>
    /\ activity_log[Len(activity_log)].content = <<"x">>

-----------------------------------------------------------------------------
(* C20 *)

\* every record of a is in b at its place, unchanged
Kept(a, b) == Len(a) <= Len(b) /\ SubSeq(b, 1, Len(a)) = a

\* C20: no step deletes or modifies a topic, a quote or an activity entry:
\* each table after the step is the table before it with records appended,
\* so a topic keeps the identifier it was given.
C20_AppendOnly ==
    [][ /\ Kept(topics, topics')
        /\ Kept(quotes, quotes')
        /\ Kept(activity_log, activity_log')
        /\ \A i \in DOMAIN topics : \A j \in DOMAIN topics' :
               topics'[j].name = topics[i].name => topics'[j].id = topics[i].id
      ]_vars

\* Every table has grown and the seeded records are where they were.
C20_Witness ==
    /\ Len(topics) = 4 /\ Len(quotes) = 6 /\ Len(activity_log) = 1
    /\ \A i \in 1..3 : topics[i].id = i
    /\ \A i \in 1..5 : quotes[i].id = i /\ quotes[i].created_at <= 3
    /\ last.op = "QuoteGenerator.__init__"

-----------------------------------------------------------------------------
(* C21 *)

\* the quote rows and the "add" entries a caller's add_quote has written (the
\* contents of the callers differ, and no seeded quote has one of them)
QuotesBy(p) == { i \in DOMAIN quotes : quotes[i].content = calls[p].content }
AddEntriesBy(p) ==
    { i \in DOMAIN activity_log :
        /\ activity_log[i].action = "add"
        /\ activity_log[i].topic = calls[p].topic
        /\ activity_log[i].content = calls[p].content }

\* the caller's one quote row is owned by the topic record of its topic name
OwnedByItsTopic(p) ==
    /\ Cardinality(QuotesBy(p)) = 1
    /\ \A i \in QuotesBy(p) : quotes[i] \in QuotesOfTopic(calls[p].topic)

\* The invariants of the store: topic names are unique, and every quote is
\* owned by an existing topic.
StoreInvariants ==
    /\ \A i, j \in DOMAIN topics : topics[i].name = topics[j].name => i = j
    /\ \A i \in DOMAIN quotes :
           \E j \in DOMAIN topics : topics[j].id = quotes[i].topic_id

\* C21: the service's add_quote is three separately committed steps: the
\* topic, then the quote, then the activity entry.  Wherever a call stands
\* or has crashed, the store holds a prefix of its effects (before the quote
\* step nothing of the call but perhaps its topic; after it the topic and
\* the quote but no "add" entry; after the last step all three), and the
\* store's invariants hold in every such state.
C21_PrefixOfEffects ==
    /\ StoreInvariants
    /\ \A p \in Callers :
        /\ calls[p].pc \in {"idle", "get_topic_id", "add_topic", "raised"} =>
               QuotesBy(p) = {} /\ AddEntriesBy(p) = {}
        /\ calls[p].pc = "add_quote" =>
               /\ TopicExists(calls[p].topic)
               /\ QuotesBy(p) = {} /\ AddEntriesBy(p) = {}
        /\ calls[p].pc = "add_activity_log" =>
               /\ TopicExists(calls[p].topic)
               /\ OwnedByItsTopic(p)
               /\ AddEntriesBy(p) = {}
        /\ calls[p].pc = "returned" =>
               /\ TopicExists(calls[p].topic)
               /\ OwnedByItsTopic(p)
               /\ Cardinality(AddEntriesBy(p)) = 1

\* Caller 1 crashed after creating topic "a" (a topic with no quotes), and
\* caller 2 crashed after inserting its quote for the seeded topic (a quote
\* with no "add" entry).
C21_Witness ==
    /\ calls[1].crashed /\ calls[1].pc = "add_quote"
    /\ calls[1].topic = <<"a">> /\ calls[1].found = <<>>
    /\ TopicExists(<<"a">>) /\ QuotesOfTopic(<<"a">>) = {}
    /\ calls[2].crashed /\ calls[2].pc = "add_activity_log"
    /\ calls[2].topic = <<"N","a","u","k","a">>
    /\ Cardinality(QuotesBy(2)) = 1
    /\ activity_log = <<>>

-----------------------------------------------------------------------------
(* C22 *)

\* The caller's get_topic_id found no topic of its name.
ReadAbsent(p) ==
    /\ calls[p].pc \in {"add_topic", "add_quote", "add_activity_log",
                         "returned", "raised"}
    /\ calls[p].topic # <<>>
    /\ calls[p].found = <<>>

\* The caller's add_quote has ended, by returning or by raising.
Ended(p) == calls[p].pc \in {"returned", "raised"} /\ ~calls[p].crashed

\* C22: when two add_quote calls for the same topic both read it as absent
\* (so both read before either inserted) and both have ended, neither has
\* failed, both resolved the same id, exactly one topic of that name exists
\* and it owns the quotes of both.
C22_BothResolveSameTopic ==
    \A p \in Callers : \A q \in Callers \ {p} :
        ( /\ ReadAbsent(p) /\ ReadAbsent(q)
          /\ calls[p].topic = calls[q].topic
          /\ Ended(p) /\ Ended(q) )
        =>
        /\ calls[p].pc = "returned" /\ calls[q].pc = "returned"
        /\ calls[p].topic_id # <<>>
        /\ calls[p].topic_id = calls[q].topic_id
        /\ Cardinality({i \in DOMAIN topics :
                           topics[i].name = calls[p].topic}) = 1
        /\ \A i \in DOMAIN topics :
               topics[i].name = calls[p].topic =>
                   calls[p].topic_id = <<topics[i].id>>
        /\ OwnedByItsTopic(p) /\ OwnedByItsTopic(q)

\* Both callers read topic "a" as absent, both calls returned, and the one
\* topic "a" owns the two quotes.
C22_Witness ==
    /\ \A p \in Callers :
           /\ ReadAbsent(p) /\ Ended(p)
           /\ calls[p].topic = <<"a">> /\ calls[p].pc = "returned"
    /\ Cardinality(QuotesOfTopic(<<"a">>)) = 2
    /\ Len(topics) = 4

-----------------------------------------------------------------------------
(* C23 *)

\* the names of the topic records that own the quote row with identifier id
OwnerNames(id) ==
    { topics[j].name : j \in { k \in DOMAIN topics :
        \E i \in DOMAIN quotes :
            quotes[i].id = id /\ quotes[i].topic_id = topics[k].id } }

\* C23: a get_random_quote that returns a quote appends one "view" entry
\* whose topic is the name of the topic that owns the returned quote, whether
\* or not a topic was requested; the fallback "all" is not what is stored.
C23_ViewEntryNamesOwner ==
    [][ (IsCall("QuoteGenerator.get_random_quote") /\ last'.ret # <<>>) =>
          /\ Len(activity_log') = Len(activity_log) + 1
          /\ LET e == activity_log'[Len(activity_log')]
             IN  /\ e.action = "view"
                 /\ OwnerNames(last'.ret[1].id) = {e.topic}
                 /\ e.topic # <<"a", "l", "l">>
      ]_vars

\* get_random_quote() without a topic drew a quote of the seeded topic
\* "Nauka" and the entry it wrote names that topic.
C23_Witness ==
    /\ last.op = "QuoteGenerator.get_random_quote"
    /\ last.args = <<None>>
    /\ last.ret # <<>>
    /\ OwnerNames(last.ret[1].id) = {<<"N","a","u","k","a">>}
    /\ activity_log # <<>>
    /\ activity_log[Len(activity_log)].action = "view"
    /\ activity_log[Len(activity_log)].topic = <<"N","a","u","k","a">>
    /\ activity_log[Len(activity_log)].content = Truncate(last.ret[1].content)

-----------------------------------------------------------------------------
(* C24 *)

\* the operations that only read
ReadOps ==
    { "QuoteGenerator.get_topics", "QuoteGenerator.get_quotes_by_topic",
      "QuoteGenerator.get_activity_stats", "QuoteGenerator.activity_log",
      "Database.get_activity_log", "Database.get_topic_id",
      "Database.get_all_quotes" }

\* C24: a step of get_topics, get_quotes_by_topic (whether it returns or
\* raises), get_activity_stats, the activity_log accessor, get_topic_id or
\* get_all_quotes leaves the topics, the quotes and the activity entries as
\* they were; of the service's queries only get_random_quote writes, one
\* activity entry when it returns a quote.
C24_ReadsLeaveStore ==
    [][ /\ (now' = now /\ last'.op \in ReadOps) => StoreUnchanged
        /\ IsCall("QuoteGenerator.get_random_quote") =>
               /\ topics' = topics /\ quotes' = quotes
               /\ (activity_log' # activity_log) = (last'.ret # <<>>)
      ]_vars

\* After a view entry was written, get_quotes_by_topic("a") raised
\* TopicNotFoundException: no topic "a" was created and the store holds the
\* seeded rows and that one entry.
C24_Witness ==
    /\ last.op = "QuoteGenerator.get_quotes_by_topic"
    /\ last.args = <<<<"a">>>>
    /\ last.exc = "TopicNotFoundException"
    /\ ~TopicExists(<<"a">>)
    /\ Len(topics) = 3 /\ Len(quotes) = 5
    /\ Len(activity_log) = 1 /\ activity_log[1].action = "view"

====
